---- MODULE Spec2Model ----
(***************************************************************************)
(* A state-machine model of GameClient (src/game.js): the keyboard         *)
(* movement-intent controller, the WebSocket connection lifecycle, the     *)
(* reconciliation of server messages into the player and avatar mappings,  *)
(* and the viewport computation.                                           *)
(*                                                                         *)
(* Every handler of the class is one action.  JavaScript objects are       *)
(* modelled by value: the source never mutates a player or avatar object   *)
(* in place (it only replaces map entries), so a reference held in         *)
(* this.myPlayer equals the value the object had when it was stored.       *)
(*                                                                         *)
(* Coordinates: canvas.width / 2 is an exact quotient in JavaScript; the   *)
(* screen sizes enumerated here are even, so \div 2 is that quotient.      *)
(***************************************************************************)
EXTENDS Integers, Sequences, FiniteSets, TLC

VARIABLES
    players,        \* this.players: id -> Player record (or Undefined)
    avatars,        \* this.avatars: name -> AvatarDefinition (or Undefined)
    myPlayerId,     \* this.myPlayerId
    myPlayer,       \* this.myPlayer: the record captured at join
    avatarImages,   \* this.avatarImages: name -> cached image set
    keysPressed,    \* this.keysPressed: logical key -> BOOLEAN
    isMoving,       \* this.isMoving
    viewportX,      \* this.viewportX
    viewportY,      \* this.viewportY
    canvasWidth,    \* this.canvas.width
    canvasHeight,   \* this.canvas.height
    readyState,     \* this.ws.readyState
    reconnectTimer, \* a setTimeout(connectToServer, 3000) is pending
    sent,           \* the messages passed to this.ws.send on the current socket
    lastEvent       \* the event whose handler ran last (observer)

vars == <<players, avatars, myPlayerId, myPlayer, avatarImages, keysPressed,
          isMoving, viewportX, viewportY, canvasWidth, canvasHeight,
          readyState, reconnectTimer, sent, lastEvent>>

worldVars == <<players, avatars, myPlayerId, myPlayer, avatarImages>>
viewVars == <<viewportX, viewportY>>
canvasVars == <<canvasWidth, canvasHeight>>
keyVars == <<keysPressed, isMoving>>
wsVars == <<readyState, reconnectTimer>>

----------------------------------------------------------------------------
(* Program constants and bounds *)

worldWidth == 2048
worldHeight == 2048

\* The longest outbound log of one connection that the model explores.
MaxSent == 4

\* JavaScript's null and undefined; records, so that they compare with the
\* records and string-keyed maps they stand in for.
Null == [null |-> TRUE]
Undefined == [undefined |-> TRUE]

\* this.myPlayerId = null, as an id: ids are strings and compare with it.
NoId == "null"

Truthy(v) == v # Null /\ v # Undefined

Max(a, b) == IF a >= b THEN a ELSE b
Min(a, b) == IF a <= b THEN a ELSE b

EmptyMap == [k \in {} |-> Null]

----------------------------------------------------------------------------
(* MovementIntentController *)

LogicalKeys == {"up", "down", "left", "right"}

\* The physical keys the handlers are exercised with: for every logical key
\* the arrow key and a letter key (lower or upper case), and one key that
\* no case of the switch matches.
Keys == {"ArrowUp", "w", "ArrowDown", "S", "ArrowLeft", "a", "ArrowRight", "D", "x"}

\* The switch(event.key) of both key handlers; "none" is keyName = null.
KeyName(key) ==
    CASE key \in {"ArrowUp", "w", "W"} -> "up"
      [] key \in {"ArrowDown", "s", "S"} -> "down"
      [] key \in {"ArrowLeft", "a", "A"} -> "left"
      [] key \in {"ArrowRight", "d", "D"} -> "right"
      [] OTHER -> "none"

JoinMessage == [action |-> "join_game", username |-> "Alonso"]
MoveMessage(direction) == [action |-> "move", direction |-> direction]
StopMessage == [action |-> "stop"]

\* sendMoveCommand without the test of the socket's readyState.
sendMoveCommand_noGuard(log, direction) == Append(log, MoveMessage(direction))

\* sendMoveCommand: the log of the socket after the call.
sendMoveCommand(log, direction) ==
    IF readyState # "OPEN" THEN log ELSE Append(log, MoveMessage(direction))

\* sendStopCommand: the log of the socket after the call.
sendStopCommand(log) ==
    IF readyState # "OPEN" THEN log ELSE Append(log, StopMessage)

\* The aggregate computed with every() instead of some().
AnyPressed_every(kp) == \A k \in LogicalKeys : kp[k]

\* Object.values(this.keysPressed).some(pressed => pressed)
AnyPressed(kp) == \E k \in LogicalKeys : kp[k]

\* checkMovementState with the stop sent whenever the client was moving.
checkMovementState_stopWhileMoving(kp, log) ==
    [isMoving |-> AnyPressed(kp),
     sent |-> IF isMoving THEN sendStopCommand(log) ELSE log]

\* checkMovementState with the negation of the stop condition dropped.
checkMovementState_noStop(kp, log) ==
    [isMoving |-> AnyPressed(kp),
     sent |-> IF isMoving /\ AnyPressed(kp) THEN sendStopCommand(log) ELSE log]

\* checkMovementState, run with the key states kp and the log so far:
\* the new isMoving and the log after the possible stop.
checkMovementState(kp, log) ==
    LET wasMoving == isMoving
        nowMoving == AnyPressed(kp)
    IN  [isMoving |-> nowMoving,
         sent |-> IF wasMoving /\ ~nowMoving THEN sendStopCommand(log) ELSE log]

KeyEvent(type, key) ==
    [type |-> type, key |-> key,
     held |-> KeyName(key) # "none" /\ keysPressed[KeyName(key)]]

\* The keydown listener sending the move only when the client was idle.
KeyDown_moveOnlyWhenIdle(key) ==
    /\ Len(sent) < MaxSent
    /\ lastEvent' = KeyEvent("keydown", key)
    /\ IF KeyName(key) # "none" /\ ~keysPressed[KeyName(key)]
       THEN LET kp == [keysPressed EXCEPT ![KeyName(key)] = TRUE]
                r == checkMovementState(kp,
                        IF isMoving THEN sent
                        ELSE sendMoveCommand(sent, KeyName(key)))
            IN  /\ keysPressed' = kp
                /\ isMoving' = r.isMoving
                /\ sent' = r.sent
       ELSE UNCHANGED <<keysPressed, isMoving, sent>>
    /\ UNCHANGED <<worldVars, viewVars, canvasVars, wsVars>>

\* The keydown listener without the guard on the key being held.
KeyDown_noRepeatGuard(key) ==
    /\ Len(sent) < MaxSent
    /\ lastEvent' = KeyEvent("keydown", key)
    /\ IF KeyName(key) # "none"
       THEN LET kp == [keysPressed EXCEPT ![KeyName(key)] = TRUE]
                r == checkMovementState(kp, sendMoveCommand(sent, KeyName(key)))
            IN  /\ keysPressed' = kp
                /\ isMoving' = r.isMoving
                /\ sent' = r.sent
       ELSE UNCHANGED <<keysPressed, isMoving, sent>>
    /\ UNCHANGED <<worldVars, viewVars, canvasVars, wsVars>>

\* document 'keydown' listener
KeyDown(key) ==
    /\ Len(sent) < MaxSent
    /\ lastEvent' = KeyEvent("keydown", key)
    /\ IF KeyName(key) # "none" /\ ~keysPressed[KeyName(key)]
       THEN LET kp == [keysPressed EXCEPT ![KeyName(key)] = TRUE]
                r == checkMovementState(kp, sendMoveCommand(sent, KeyName(key)))
            IN  /\ keysPressed' = kp
                /\ isMoving' = r.isMoving
                /\ sent' = r.sent
       ELSE UNCHANGED <<keysPressed, isMoving, sent>>
    /\ UNCHANGED <<worldVars, viewVars, canvasVars, wsVars>>

\* document 'keyup' listener
KeyUp(key) ==
    /\ Len(sent) < MaxSent
    /\ lastEvent' = KeyEvent("keyup", key)
    /\ IF KeyName(key) # "none" /\ keysPressed[KeyName(key)]
       THEN LET kp == [keysPressed EXCEPT ![KeyName(key)] = FALSE]
                r == checkMovementState(kp, sent)
            IN  /\ keysPressed' = kp
                /\ isMoving' = r.isMoving
                /\ sent' = r.sent
       ELSE UNCHANGED <<keysPressed, isMoving, sent>>
    /\ UNCHANGED <<worldVars, viewVars, canvasVars, wsVars>>

----------------------------------------------------------------------------
(* Connection lifecycle *)

\* ws.onopen: joinGame sends the join request on the socket that just opened.
WsOpen ==
    /\ readyState = "CONNECTING"
    /\ readyState' = "OPEN"
    /\ sent' = Append(sent, JoinMessage)
    /\ lastEvent' = [type |-> "open"]
    /\ UNCHANGED <<worldVars, viewVars, canvasVars, keyVars, reconnectTimer>>

\* ws.onerror: logs only.
WsError ==
    /\ readyState \in {"CONNECTING", "OPEN"}
    /\ lastEvent' = [type |-> "error"]
    /\ UNCHANGED <<worldVars, viewVars, canvasVars, keyVars, wsVars, sent>>

\* ws.onclose rescheduling only after a connection that had opened.
WsClose_noRetryAfterFailedAttempt ==
    /\ readyState \in {"CONNECTING", "OPEN"}
    /\ readyState' = "CLOSED"
    /\ reconnectTimer' = (readyState = "OPEN")
    /\ lastEvent' = [type |-> "close"]
    /\ UNCHANGED <<worldVars, viewVars, canvasVars, keyVars, sent>>

\* ws.onclose: schedules connectToServer in 3000 ms.  It runs for a socket
\* that was open and for one whose connection attempt failed alike.  (new
\* WebSocket throws only for a URL it cannot parse; the URL is a constant,
\* well-formed wss: URL, so the catch of connectToServer is never entered.)
WsClose ==
    /\ readyState \in {"CONNECTING", "OPEN"}
    /\ readyState' = "CLOSED"
    /\ reconnectTimer' = TRUE
    /\ lastEvent' = [type |-> "close"]
    /\ UNCHANGED <<worldVars, viewVars, canvasVars, keyVars, sent>>

\* The timer fires: connectToServer replaces this.ws by a new socket.
Reconnect ==
    /\ reconnectTimer
    /\ reconnectTimer' = FALSE
    /\ readyState' = "CONNECTING"
    /\ sent' = <<>>
    /\ lastEvent' = [type |-> "reconnect"]
    /\ UNCHANGED <<worldVars, viewVars, canvasVars, keyVars>>

----------------------------------------------------------------------------
(* ViewportModel *)

\* updateViewport with the two clamps applied in the other order.
updateViewport_clampOrder(mp, w, h) ==
    IF ~Truthy(mp) THEN <<viewportX, viewportY>>
    ELSE <<Min(Max(0, mp.x - w \div 2), worldWidth - w),
           Min(Max(0, mp.y - h \div 2), worldHeight - h)>>

\* updateViewport centring on the full canvas size instead of half of it.
updateViewport_noHalf(mp, w, h) ==
    IF ~Truthy(mp) THEN <<viewportX, viewportY>>
    ELSE <<Max(0, Min(mp.x - w, worldWidth - w)),
           Max(0, Min(mp.y - h, worldHeight - h))>>

\* updateViewport, run with this.myPlayer = mp and a canvas of w x h:
\* the viewport origin after the call.
updateViewport(mp, w, h) ==
    IF ~Truthy(mp) THEN <<viewportX, viewportY>>
    ELSE <<Max(0, Min(mp.x - w \div 2, worldWidth - w)),
           Max(0, Min(mp.y - h \div 2, worldHeight - h))>>

----------------------------------------------------------------------------
(* AssetCache *)

Directions == {"north", "south", "east"}

\* The Image objects preloadAvatarImages creates for one avatar: per
\* direction, one image per frame, with the frame as its src; an image is
\* not complete until its load finishes.
LoadImages(avatar) ==
    [dir \in Directions |->
        [i \in 1..Len(avatar.frames[dir]) |->
            [src |-> avatar.frames[dir][i], complete |-> FALSE]]]

\* preloadAvatarImages without the test for an existing cache entry.
preloadAvatarImages_noGuard(avs, cache) ==
    LET names == {avs[k].name : k \in DOMAIN avs}
        defOf(n) == avs[CHOOSE k \in DOMAIN avs : avs[k].name = n]
    IN  [n \in DOMAIN cache \cup names |->
            IF n \in names THEN LoadImages(defOf(n)) ELSE cache[n]]

\* preloadAvatarImages, run with this.avatars = avs (a map): the cache after
\* the call.  The cache key is the name the definition carries.
preloadAvatarImages(avs, cache) ==
    LET names == {avs[k].name : k \in DOMAIN avs}
        defOf(n) == avs[CHOOSE k \in DOMAIN avs : avs[k].name = n]
    IN  [n \in DOMAIN cache \cup names |->
            IF n \in DOMAIN cache THEN cache[n] ELSE LoadImages(defOf(n))]

----------------------------------------------------------------------------
(* ProtocolReconciler *)

\* The fields handleServerMessage writes, as they are when a handler starts.
Cur ==
    [players |-> players, avatars |-> avatars, myPlayerId |-> myPlayerId,
     myPlayer |-> myPlayer, avatarImages |-> avatarImages,
     viewportX |-> viewportX, viewportY |-> viewportY]

WithViewport(st, vp) == [st EXCEPT !.viewportX = vp[1], !.viewportY = vp[2]]

\* obj[key] = value on a map
Put(map, key, value) ==
    [k \in DOMAIN map \cup {key} |-> IF k = key THEN value ELSE map[k]]

\* A removal that, for a key the map does not hold, removes another entry
\* (the splice(indexOf(key), 1) slip).
Delete_spliceAbsent(map, key) ==
    IF key \in DOMAIN map \/ DOMAIN map = {} THEN [k \in DOMAIN map \ {key} |-> map[k]]
    ELSE [k \in DOMAIN map \ {CHOOSE j \in DOMAIN map : TRUE} |-> map[k]]

\* delete obj[key] on a map
Delete(map, key) == [k \in DOMAIN map \ {key} |-> map[k]]

\* Object.assign with the arguments swapped: existing entries win.
ObjectAssign_keepExisting(target, source) ==
    IF source = Undefined THEN target
    ELSE [k \in DOMAIN target \cup DOMAIN source |->
             IF k \in DOMAIN target THEN target[k] ELSE source[k]]

\* A merge guarded against ids the target does not hold.
ObjectAssign_noInsert(target, source) ==
    IF source = Undefined THEN target
    ELSE [k \in DOMAIN target |->
             IF k \in DOMAIN source THEN source[k] ELSE target[k]]

\* Object.assign(target, source) on maps; a missing source copies nothing.
ObjectAssign(target, source) ==
    IF source = Undefined THEN target
    ELSE [k \in DOMAIN target \cup DOMAIN source |->
             IF k \in DOMAIN source THEN source[k] ELSE target[k]]

\* case 'join_game' without the test of message.success.
onJoinGame_ignoreSuccess(m) ==
    LET s1 == [Cur EXCEPT !.myPlayerId = m.playerId,
                          !.players = m.players,
                          !.avatars = m.avatars]
    IN  IF m.players = Undefined THEN s1
        ELSE
          LET mp == IF m.playerId \in DOMAIN m.players
                    THEN m.players[m.playerId] ELSE Undefined
              s2 == [s1 EXCEPT !.myPlayer = mp]
          IN  IF m.avatars = Undefined THEN s2
              ELSE
                WithViewport(
                  [s2 EXCEPT !.avatarImages =
                                preloadAvatarImages(m.avatars, avatarImages)],
                  updateViewport(mp, canvasWidth, canvasHeight))

\* case 'join_game' merging the payload into the mappings it should replace.
onJoinGame_merge(m) ==
    IF m.success # TRUE THEN Cur
    ELSE
      LET ps == ObjectAssign(players, m.players)
          avs == ObjectAssign(avatars, m.avatars)
          mp == IF m.playerId \in DOMAIN ps THEN ps[m.playerId] ELSE Undefined
      IN  WithViewport(
            [Cur EXCEPT !.myPlayerId = m.playerId, !.players = ps,
                        !.avatars = avs, !.myPlayer = mp,
                        !.avatarImages = preloadAvatarImages(avs, avatarImages)],
            updateViewport(mp, canvasWidth, canvasHeight))

\* case 'join_game'.  A TypeError (reading a property of undefined, or
\* Object.values(undefined)) leaves the assignments made before it; the
\* try/catch of ws.onmessage swallows it.
onJoinGame(m) ==
    IF m.success # TRUE THEN Cur
    ELSE
      LET s1 == [Cur EXCEPT !.myPlayerId = m.playerId,
                            !.players = m.players,
                            !.avatars = m.avatars]
      IN  IF m.players = Undefined THEN s1
          ELSE
            LET mp == IF m.playerId \in DOMAIN m.players
                      THEN m.players[m.playerId] ELSE Undefined
                s2 == [s1 EXCEPT !.myPlayer = mp]
            IN  IF m.avatars = Undefined THEN s2
                ELSE
                  WithViewport(
                    [s2 EXCEPT !.avatarImages =
                                  preloadAvatarImages(m.avatars, avatarImages)],
                    updateViewport(mp, canvasWidth, canvasHeight))

\* case 'player_joined'
onPlayerJoined(m) ==
    IF m.player = Undefined \/ players = Undefined THEN Cur
    ELSE
      LET s1 == [Cur EXCEPT !.players = Put(players, m.player.id, m.player)]
      IN  IF m.avatar = Undefined \/ avatars = Undefined THEN s1
          ELSE
            LET avs == Put(avatars, m.avatar.name, m.avatar)
            IN  [s1 EXCEPT !.avatars = avs,
                           !.avatarImages = preloadAvatarImages(avs, avatarImages)]

\* case 'players_moved'
onPlayersMoved(m) ==
    IF players = Undefined THEN Cur
    ELSE WithViewport([Cur EXCEPT !.players = ObjectAssign(players, m.players)],
                      updateViewport(myPlayer, canvasWidth, canvasHeight))

\* case 'player_left'
onPlayerLeft(m) ==
    IF players = Undefined THEN Cur
    ELSE [Cur EXCEPT !.players = Delete(players, m.playerId)]

\* case default (and every case) of handleServerMessage with an unknown
\* action treated as a reset of the player mapping.
handleServerMessage_unknownResets(m) ==
    CASE m.action = "join_game" -> onJoinGame(m)
      [] m.action = "player_joined" -> onPlayerJoined(m)
      [] m.action = "players_moved" -> onPlayersMoved(m)
      [] m.action = "player_left" -> onPlayerLeft(m)
      [] OTHER -> [Cur EXCEPT !.players = EmptyMap]

\* handleServerMessage: the fields after the call (or after the exception
\* that ended it).
handleServerMessage(m) ==
    CASE m.action = "join_game" -> onJoinGame(m)
      [] m.action = "player_joined" -> onPlayerJoined(m)
      [] m.action = "players_moved" -> onPlayersMoved(m)
      [] m.action = "player_left" -> onPlayerLeft(m)
      [] OTHER -> Cur

\* The observer's record of a decoded message: the message, and the player
\* ids and the cached avatar names the handler found.
MessageEvent(m) ==
    [type |-> "message", msg |-> m,
     known |-> IF players = Undefined THEN {} ELSE DOMAIN players,
     cached |-> DOMAIN avatarImages]

\* ws.onmessage with a payload that decodes to m; messages arrive on an
\* open socket only.
OnMessage(m) ==
    /\ readyState = "OPEN"
    /\ LET st == handleServerMessage(m)
       IN  /\ players' = st.players
           /\ avatars' = st.avatars
           /\ myPlayerId' = st.myPlayerId
           /\ myPlayer' = st.myPlayer
           /\ avatarImages' = st.avatarImages
           /\ viewportX' = st.viewportX
           /\ viewportY' = st.viewportY
    /\ lastEvent' = MessageEvent(m)
    /\ UNCHANGED <<canvasVars, keyVars, wsVars, sent>>

\* ws.onmessage with a payload that JSON.parse rejects (or that decodes to
\* null, so that reading message.action throws): the catch logs it.
OnDecodeError ==
    /\ readyState = "OPEN"
    /\ lastEvent' = [type |-> "decode_error"]
    /\ UNCHANGED <<worldVars, viewVars, canvasVars, keyVars, wsVars, sent>>

\* window 'resize' listener, the window now being scr[1] x scr[2]
Resize(scr) ==
    /\ canvasWidth' = scr[1]
    /\ canvasHeight' = scr[2]
    /\ LET vp == updateViewport(myPlayer, scr[1], scr[2])
       IN  viewportX' = vp[1] /\ viewportY' = vp[2]
    /\ lastEvent' = [type |-> "resize"]
    /\ UNCHANGED <<worldVars, keyVars, wsVars, sent>>

----------------------------------------------------------------------------
(* Renderer *)

\* player.animationFrame when the record carries none
NoFrame == -1

CullMargin == 50

\* The image drawPlayer selects from a cached frame list for
\* player.animationFrame || 0 (indices are 0-based in the source), or
\* Undefined when the list has no such element.
FrameImage(images, animationFrame) ==
    LET frame == IF animationFrame = NoFrame THEN 0 ELSE animationFrame
    IN  IF frame + 1 \in DOMAIN images THEN images[frame + 1] ELSE Undefined

\* drawPlayer: "drawn" when it reaches ctx.drawImage, "skipped" when it
\* returns before, "throws" when it raises a TypeError (reading a property
\* of undefined).
drawPlayer(player) ==
    IF avatars = Undefined THEN "throws"
    ELSE IF player.avatar \notin DOMAIN avatars
            \/ player.avatar \notin DOMAIN avatarImages THEN "skipped"
    ELSE
      LET screenX == player.x - viewportX
          screenY == player.y - viewportY
      IN  IF \/ screenX < -CullMargin \/ screenX > canvasWidth + CullMargin
             \/ screenY < -CullMargin \/ screenY > canvasHeight + CullMargin
          THEN "skipped"
          ELSE
            LET direction == player.facing
                set == avatarImages[player.avatar]
            IN  IF direction # "west" /\ direction \notin DOMAIN set THEN "throws"
                ELSE
                  LET img == FrameImage(
                                 IF direction = "west" THEN set.east ELSE set[direction],
                                 player.animationFrame)
                  IN  IF img = Undefined \/ ~img.complete THEN "skipped"
                      ELSE "drawn"

\* The orders in which Object.values(this.players) may enumerate the ids:
\* the insertion order, which the mapping as modelled does not record.
Orders(ids) ==
    {o \in [1..Cardinality(ids) -> ids] : \A i, j \in DOMAIN o : o[i] = o[j] => i = j}

\* drawPlayers enumerating in the order o: the ids drawn, and whether the
\* pass ended in an exception (which ends the forEach).
drawPlayersIn(o) ==
    LET thrown == {i \in DOMAIN o : drawPlayer(players[o[i]]) = "throws"}
        stop == IF thrown = {} THEN Len(o) + 1
                ELSE CHOOSE i \in thrown : \A j \in thrown : i <= j
    IN  [drawn |-> {o[i] : i \in {j \in 1..(stop - 1) :
                                    drawPlayer(players[o[j]]) = "drawn"}},
         error |-> thrown # {}]

\* drawWorld (this.worldImage is set by loadWorldMap before any handler
\* runs): the possible results of the pass over the players.
drawWorld ==
    IF players = Undefined THEN {[drawn |-> {}, error |-> TRUE]}
    ELSE {drawPlayersIn(o) : o \in Orders(DOMAIN players)}

\* The load of one cached image finishes (no handler of the program runs).
ImageLoaded(name, dir, i) ==
    /\ name \in DOMAIN avatarImages
    /\ i \in DOMAIN avatarImages[name][dir]
    /\ ~avatarImages[name][dir][i].complete
    /\ avatarImages' = [avatarImages EXCEPT ![name][dir][i].complete = TRUE]
    /\ lastEvent' = [type |-> "image_loaded"]
    /\ UNCHANGED <<players, avatars, myPlayerId, myPlayer, viewVars,
                   canvasVars, keyVars, wsVars, sent>>

----------------------------------------------------------------------------
(* Server messages the model is exercised with *)

PlayerIds == {"p1", "p2"}
AvatarNames == {"a1", "a2"}

Frames1 == [north |-> <<"n1">>, south |-> <<"s1">>, east |-> <<"e1">>]

Player(id, pt, avatar) == [id |-> id, x |-> pt[1], y |-> pt[2], avatar |-> avatar]
AvatarDef(name, frames) == [name |-> name, frames |-> frames]

\* The message.players payloads built from the records recs: the maps from
\* some of the ids to a record that carries the id it is stored under.
PlayerMapsOf(recs) ==
    UNION {{f \in [S -> recs] : \A k \in S : f[k].id = k} :
              S \in SUBSET {r.id : r \in recs}}

\* The message.avatars payloads built from the definitions defs, each
\* stored under its name.
AvatarMapsOf(defs) ==
    UNION {{f \in [S -> defs] : \A k \in S : f[k].name = k} :
              S \in SUBSET {d.name : d \in defs}}

JoinGame(success, playerId, ps, avs) ==
    [action |-> "join_game", success |-> success, playerId |-> playerId,
     players |-> ps, avatars |-> avs]
PlayerJoined(player, avatar) ==
    [action |-> "player_joined", player |-> player, avatar |-> avatar]
PlayersMoved(ps) == [action |-> "players_moved", players |-> ps]
PlayerLeft(playerId) == [action |-> "player_left", playerId |-> playerId]

\* Well-formed traffic: positions inside, at the edge of and outside the
\* world; one avatar; a join acknowledgement lists the joining player.
Points == {<<10, 10>>, <<1000, 1000>>, <<2500, -40>>}
ViewRecs(id) == {Player(id, pt, "a1") : pt \in Points}
ViewPlayerMaps == PlayerMapsOf(UNION {ViewRecs(id) : id \in PlayerIds})
ViewAvatars == [n \in {"a1"} |-> AvatarDef("a1", Frames1)]

ViewMsgs ==
    {JoinGame(TRUE, id, ps, ViewAvatars) :
        <<id, ps>> \in {q \in PlayerIds \X ViewPlayerMaps : q[1] \in DOMAIN q[2]}}
    \cup {JoinGame(FALSE, NoId, EmptyMap, EmptyMap)}
    \cup {PlayerJoined(r, AvatarDef("a1", Frames1)) :
            r \in UNION {ViewRecs(id) : id \in PlayerIds}}
    \cup {PlayersMoved(ps) : ps \in ViewPlayerMaps}
    \cup {PlayerLeft(id) : id \in PlayerIds}

\* Traffic with unrecognized actions, with and without a payload, among
\* well-formed messages.
KnownActions == {"join_game", "player_joined", "players_moved", "player_left"}
DecodeMsgs ==
    {[action |-> "chat"],
     [action |-> "players_reset", players |-> EmptyMap],
     [action |-> "PLAYERS_MOVED",
      players |-> [id \in {"p1"} |-> Player("p1", <<2500, -40>>, "a1")]]}
    \cup {JoinGame(TRUE, "p1", [id \in {"p1"} |-> r], ViewAvatars) : r \in ViewRecs("p1")}
    \cup {PlayersMoved([id \in {"p2"} |-> r]) : r \in ViewRecs("p2")}
    \cup {PlayerLeft("p2")}
DecodeKeys == {"ArrowUp", "a"}

\* Traffic for the renderer: a join with one player that can be drawn, and
\* peers that join facing a frame set, west, or a direction no frame set
\* covers, with and without a frame index, inside and outside the view, with
\* a known avatar or one no definition was received for.
Sprite(id, pt, avatar, facing, animationFrame) ==
    [id |-> id, x |-> pt[1], y |-> pt[2], avatar |-> avatar,
     facing |-> facing, animationFrame |-> animationFrame]
DrawLocal == Sprite("p1", <<1000, 1000>>, "a1", "south", NoFrame)
DrawPeers ==
    {Sprite("p2", pt, a, f, n) :
        <<pt, a, f, n>> \in {<<1000, 1010>>, <<10, 10>>} \X {"a1", "a2"}
                            \X {"north", "west", "up"} \X {NoFrame, 3}}
DrawMsgs ==
    {JoinGame(TRUE, "p1", [id \in {"p1"} |-> DrawLocal], ViewAvatars)}
    \cup {PlayerJoined(r, AvatarDef("a1", Frames1)) : r \in DrawPeers}
    \cup {PlayerLeft("p2")}

\* Probes of the viewport computation: a join acknowledgement with the
\* local player at each position of a grid that includes both axes inside,
\* near the edges of and outside the world.
ProbeCoords == {-40, 10, 1000, 2040, 2500}
ProbeMsgs ==
    {JoinGame(TRUE, "p1", [id \in {"p1"} |-> Player("p1", <<x, y>>, "a1")], ViewAvatars) :
        <<x, y>> \in ProbeCoords \X ProbeCoords}

\* Traffic with missing fields: a join acknowledgement without players or
\* avatars, a player_joined without player or avatar, a players_moved
\* without players; a refused join that carries a payload all the same.
RawPoint == <<1000, 1000>>
RawScreens == {<<800, 600>>, <<2400, 2200>>}
RawRecs(id) == {Player(id, RawPoint, IF id = "p1" THEN "a1" ELSE "a2")}
RawDefs(n) == {AvatarDef(n, Frames1)}
RawPlayerMaps == PlayerMapsOf(UNION {RawRecs(id) : id \in PlayerIds})
RawAvatarMaps == AvatarMapsOf(UNION {RawDefs(n) : n \in AvatarNames})

RawMsgs ==
    {JoinGame(TRUE, q[1], q[2], q[3]) :
        q \in {t \in PlayerIds \X (RawPlayerMaps \cup {Undefined})
                              \X (RawAvatarMaps \cup {Undefined}) :
                  t[2] = Undefined \/ t[1] \in DOMAIN t[2]}}
    \cup {JoinGame(FALSE, "p2", ps, avs) :
            <<ps, avs>> \in {[id \in {"p2"} |-> Player("p2", RawPoint, "a2")], Undefined}
                            \X {[n \in {"a2"} |-> AvatarDef("a2", Frames1)], Undefined}}
    \cup {PlayerJoined(r, d) :
            <<r, d>> \in (UNION {RawRecs(id) : id \in PlayerIds} \cup {Undefined})
                          \X (UNION {RawDefs(n) : n \in AvatarNames} \cup {Undefined})}
    \cup {PlayersMoved(ps) : ps \in RawPlayerMaps \cup {Undefined}}
    \cup {PlayerLeft(id) : id \in PlayerIds}

\* Traffic for the asset cache: two avatar names, each with two different
\* frame sets, in join acknowledgements and peer joins.
Frames2 == [north |-> <<"n2a", "n2b">>, south |-> <<"s2a", "s2b">>,
            east |-> <<"e2a", "e2b">>]
AssetDefs == {AvatarDef(n, f) : <<n, f>> \in AvatarNames \X {Frames1, Frames2}}
AssetAvatarMaps ==
    {EmptyMap,
     [n \in {"a1"} |-> AvatarDef("a1", Frames1)],
     [n \in {"a2"} |-> AvatarDef("a2", Frames2)],
     [n \in {"a1", "a2"} |-> AvatarDef(n, IF n = "a1" THEN Frames2 ELSE Frames1)]}
AssetMsgs ==
    {JoinGame(TRUE, q[1], q[2], q[3]) :
        q \in {t \in PlayerIds \X RawPlayerMaps \X AssetAvatarMaps :
                  t[1] \in DOMAIN t[2]}}
    \cup {PlayerJoined(r, d) :
            <<r, d>> \in (UNION {RawRecs(id) : id \in PlayerIds}) \X AssetDefs}
    \cup {PlayerLeft(id) : id \in PlayerIds}

----------------------------------------------------------------------------
(* Screen sizes (even, see the header) *)

Screens == {<<800, 600>>, <<1600, 1200>>, <<2400, 600>>, <<2400, 2200>>}

\* The state the constructor leaves, for a window of size scr.
InitWith(scr) ==
    /\ players = EmptyMap
    /\ avatars = EmptyMap
    /\ myPlayerId = NoId
    /\ myPlayer = Null
    /\ avatarImages = EmptyMap
    /\ keysPressed = [k \in LogicalKeys |-> FALSE]
    /\ isMoving = FALSE
    /\ viewportX = 0
    /\ viewportY = 0
    /\ canvasWidth = scr[1]
    /\ canvasHeight = scr[2]
    /\ readyState = "CONNECTING"
    /\ reconnectTimer = FALSE
    /\ sent = <<>>
    /\ lastEvent = [type |-> "init"]

Init == \E scr \in Screens : InitWith(scr)

----------------------------------------------------------------------------
(* The input specification: key events and the connection lifecycle *)

InitInput == InitWith(<<800, 600>>)

NextInput ==
    \/ \E key \in Keys : KeyDown(key)
    \/ \E key \in Keys : KeyUp(key)
    \/ WsOpen
    \/ WsError
    \/ WsClose
    \/ Reconnect

SpecInput == InitInput /\ [][NextInput]_vars

----------------------------------------------------------------------------
(* The world specification: well-formed server traffic, resizes and the
   connection lifecycle *)

NextWorld ==
    \/ \E m \in ViewMsgs : OnMessage(m)
    \/ \E scr \in Screens : Resize(scr)
    \/ WsOpen
    \/ WsError
    \/ WsClose
    \/ Reconnect

SpecWorld == Init /\ [][NextWorld]_vars

----------------------------------------------------------------------------
(* The viewport specification: a join at a probe position, then resizes *)

NextViewport ==
    \/ WsOpen
    \/ \E m \in ProbeMsgs : OnMessage(m)
    \/ \E scr \in Screens : Resize(scr)

SpecViewport == Init /\ [][NextViewport]_vars

----------------------------------------------------------------------------
(* The raw specification: server traffic with missing fields *)

NextRaw ==
    \/ \E m \in RawMsgs : OnMessage(m)
    \/ \E scr \in RawScreens : Resize(scr)
    \/ WsOpen
    \/ WsError
    \/ WsClose
    \/ Reconnect

SpecRaw == InitWith(<<800, 600>>) /\ [][NextRaw]_vars

----------------------------------------------------------------------------
(* The decode specification: unrecognized and undecodable messages among
   well-formed ones, with key events and the connection lifecycle *)

NextDecode ==
    \/ \E m \in DecodeMsgs : OnMessage(m)
    \/ OnDecodeError
    \/ \E key \in DecodeKeys : KeyDown(key)
    \/ \E key \in DecodeKeys : KeyUp(key)
    \/ WsOpen
    \/ WsClose
    \/ Reconnect

SpecDecode == InitWith(<<800, 600>>) /\ [][NextDecode]_vars

----------------------------------------------------------------------------
(* The reconnection specification: the connection lifecycle with key events,
   and the timer set by onclose eventually firing (the event loop runs a
   timer once its delay has passed) *)

NextReconnect ==
    \/ WsOpen
    \/ WsError
    \/ WsClose
    \/ Reconnect
    \/ \E key \in DecodeKeys : KeyDown(key)
    \/ \E key \in DecodeKeys : KeyUp(key)

SpecReconnect ==
    InitWith(<<800, 600>>) /\ [][NextReconnect]_vars /\ WF_vars(Reconnect)

----------------------------------------------------------------------------
(* The drawing specification: joins, peers, image loads and resizes *)

NextDraw ==
    \/ WsOpen
    \/ \E m \in DrawMsgs : OnMessage(m)
    \/ \E n \in AvatarNames, dir \in Directions, i \in 1..2 : ImageLoaded(n, dir, i)
    \/ \E scr \in RawScreens : Resize(scr)

SpecDraw == InitWith(<<800, 600>>) /\ [][NextDraw]_vars

----------------------------------------------------------------------------
(* The asset specification: joins and peer joins that carry avatar
   definitions, and image loads *)

NextAssets ==
    \/ WsOpen
    \/ \E m \in AssetMsgs : OnMessage(m)
    \/ \E n \in AvatarNames : ImageLoaded(n, "east", 1)

SpecAssets == InitWith(<<800, 600>>) /\ [][NextAssets]_vars

----------------------------------------------------------------------------
(* Claims about the movement-intent controller, checked under SpecInput *)

\* What a step passed to ws.send: the suffix the step added to the log of
\* the current socket (nothing when the step replaced the socket).
Emitted ==
    IF Len(sent') >= Len(sent) /\ SubSeq(sent', 1, Len(sent)) = sent
    THEN SubSeq(sent', Len(sent) + 1, Len(sent'))
    ELSE <<>>

EmitsStop == \E i \in 1..Len(Emitted) : Emitted[i] = StopMessage

\* C1: a stop is emitted at most once per transition of isMoving from true
\* to false: a step that emits a stop emits exactly one, is a key-up, starts
\* with isMoving true and ends with isMoving false and no logical key held.
C1_StopOnlyOnTransition ==
    [][EmitsStop =>
          /\ Emitted = <<StopMessage>>
          /\ lastEvent'.type = "keyup"
          /\ isMoving /\ ~isMoving'
          /\ ~AnyPressed(keysPressed')]_vars

\* A key-up on an open connection that left another key held and emitted
\* no stop: the last command on the socket is still a move.
C1_Witness ==
    /\ lastEvent.type = "keyup" /\ lastEvent.held
    /\ AnyPressed(keysPressed) /\ isMoving
    /\ readyState = "OPEN"
    /\ Len(sent) >= 3
    /\ sent[Len(sent)].action = "move"

\* The step is the key-up of a held key that takes isMoving from true to false.
LastKeyReleased ==
    /\ lastEvent'.type = "keyup"
    /\ KeyName(lastEvent'.key) # "none"
    /\ keysPressed[KeyName(lastEvent'.key)]
    /\ isMoving /\ ~isMoving'

\* C2 as stated: every key-up that takes isMoving from true to false emits
\* exactly one stop.
C2_Original == [][LastKeyReleased => Emitted = <<StopMessage>>]_vars

\* C2 amended: every key-up that takes isMoving from true to false emits
\* exactly one stop when the socket is open, and nothing when it is not.
C2_StopOnLastRelease ==
    [][LastKeyReleased =>
          IF readyState = "OPEN" THEN Emitted = <<StopMessage>>
          ELSE Emitted = <<>>]_vars

\* up, left pressed and both released on an open connection: the socket
\* carries the join request, move(up), move(left) and one stop.
C2_Witness ==
    /\ lastEvent.type = "keyup" /\ lastEvent.held
    /\ KeyName(lastEvent.key) = "left"
    /\ ~isMoving
    /\ readyState = "OPEN"
    /\ sent = <<JoinMessage, MoveMessage("up"), MoveMessage("left"), StopMessage>>

\* The step is the key-down of a logical key that is not held.
FreshKeyDown ==
    /\ lastEvent'.type = "keydown"
    /\ KeyName(lastEvent'.key) # "none"
    /\ ~keysPressed[KeyName(lastEvent'.key)]

\* C3 as stated: every key-down of a key that is not held marks it held and
\* emits exactly one move with the key's direction.
C3_Original ==
    [][FreshKeyDown =>
          /\ keysPressed'[KeyName(lastEvent'.key)]
          /\ Emitted = <<MoveMessage(KeyName(lastEvent'.key))>>]_vars

\* C3 amended: every key-down of a key that is not held marks it held and,
\* when the socket is open, emits exactly one move with the key's direction
\* (also when isMoving is already true); when it is not open it emits nothing.
C3_MovePerKeyDownEdge ==
    [][FreshKeyDown =>
          /\ keysPressed'[KeyName(lastEvent'.key)]
          /\ \A k \in LogicalKeys \ {KeyName(lastEvent'.key)} :
                keysPressed'[k] = keysPressed[k]
          /\ isMoving'
          /\ IF readyState = "OPEN"
             THEN Emitted = <<MoveMessage(KeyName(lastEvent'.key))>>
             ELSE Emitted = <<>>]_vars

\* A key-down edge that arrived while another key was held, on an open
\* connection: the socket's last two commands are moves.
C3_Witness ==
    /\ lastEvent.type = "keydown" /\ ~lastEvent.held
    /\ KeyName(lastEvent.key) # "none"
    /\ readyState = "OPEN"
    /\ Len(sent) >= 3
    /\ sent[Len(sent)] = MoveMessage(KeyName(lastEvent.key))
    /\ sent[Len(sent) - 1].action = "move"
    /\ Cardinality({k \in LogicalKeys : keysPressed[k]}) >= 2

\* C4: a key-down for a logical key that is already held emits nothing and
\* changes neither the key states nor isMoving.
C4_RepeatIsNoOp ==
    [][(/\ lastEvent'.type = "keydown"
        /\ KeyName(lastEvent'.key) # "none"
        /\ keysPressed[KeyName(lastEvent'.key)])
          => /\ Emitted = <<>>
             /\ sent' = sent
             /\ keysPressed' = keysPressed
             /\ isMoving' = isMoving]_vars

\* A key-down of "w" that found up held, on an open connection on which up
\* was pressed once.
C4_Witness ==
    /\ lastEvent = [type |-> "keydown", key |-> "w", held |-> TRUE]
    /\ readyState = "OPEN"
    /\ sent = <<JoinMessage, MoveMessage("up")>>

----------------------------------------------------------------------------
(* Claims about the viewport and the reconciliation of server messages *)

\* clamp(v, lo, hi) of the specification's viewport formula
Clamp(v, lo, hi) == Min(Max(v, lo), hi)

\* The viewport origin the specification gives for a local player record p
\* on the current canvas.
SpecViewportX(p) ==
    Clamp(p.x - canvasWidth \div 2, 0, Max(0, worldWidth - canvasWidth))
SpecViewportY(p) ==
    Clamp(p.y - canvasHeight \div 2, 0, Max(0, worldHeight - canvasHeight))

LastMessageIs(action) ==
    lastEvent.type = "message" /\ lastEvent.msg.action = action

\* C5: after every players_moved message and every resize, once a local
\* player is known, the viewport origin is the clamped centre of the record
\* the player mapping currently holds under the local player id.
C5_ViewportFollowsHeldRecord ==
    (/\ lastEvent.type = "resize" \/ LastMessageIs("players_moved")
     /\ myPlayerId # NoId
     /\ myPlayerId \in DOMAIN players)
        => /\ viewportX = SpecViewportX(players[myPlayerId])
           /\ viewportY = SpecViewportY(players[myPlayerId])

C7_ViewportFormula ==
    Truthy(myPlayer) =>
        /\ viewportX = SpecViewportX(myPlayer)
        /\ viewportY = SpecViewportY(myPlayer)
        /\ (canvasWidth = 800 /\ canvasHeight = 600
                /\ myPlayer.x = 1000 /\ myPlayer.y = 1000)
              => (viewportX = 600 /\ viewportY = 700)
        /\ (canvasWidth = 800 /\ canvasHeight = 600
                /\ myPlayer.x = 10 /\ myPlayer.y = 10)
              => (viewportX = 0 /\ viewportY = 0)

\* The first worked example, reached by a resize to 800x600.
C7_Witness ==
    /\ lastEvent.type = "resize"
    /\ canvasWidth = 800 /\ canvasHeight = 600
    /\ Truthy(myPlayer)
    /\ myPlayer.x = 1000 /\ myPlayer.y = 1000
    /\ viewportX = 600 /\ viewportY = 700

\* C8: a players_moved message leaves, for every id it contains, the record
\* it carries, and for every other id the record (or the absence) there was.
C8_LastWriteWins ==
    [][(lastEvent'.type = "message" /\ lastEvent'.msg.action = "players_moved")
          => LET m == lastEvent'.msg.players
             IN  \A id \in PlayerIds :
                    IF id \in DOMAIN m
                    THEN id \in DOMAIN players' /\ players'[id] = m[id]
                    ELSE /\ (id \in DOMAIN players') = (id \in DOMAIN players)
                         /\ id \in DOMAIN players => players'[id] = players[id]]_vars

\* A players_moved that carried p1 and not p2, both being known: p1 has the
\* carried record and p2 a record the message did not carry.
C8_Witness ==
    /\ LastMessageIs("players_moved")
    /\ DOMAIN lastEvent.msg.players = {"p1"}
    /\ DOMAIN players = {"p1", "p2"}
    /\ players["p1"] = lastEvent.msg.players["p1"]
    /\ players["p2"].x # players["p1"].x

\* The step applied all of message m's mutations of the two mappings.
AppliedAll(m) ==
    CASE m.action = "join_game" ->
            players' = m.players /\ avatars' = m.avatars
      [] m.action = "player_joined" ->
            /\ m.player # Undefined /\ m.avatar # Undefined
            /\ players # Undefined /\ avatars # Undefined
            /\ players' = Put(players, m.player.id, m.player)
            /\ avatars' = Put(avatars, m.avatar.name, m.avatar)
      [] m.action = "players_moved" ->
            /\ players # Undefined
            /\ players' = ObjectAssign(players, m.players)
            /\ avatars' = avatars
      [] m.action = "player_left" ->
            /\ players # Undefined
            /\ players' = Delete(players, m.playerId)
            /\ avatars' = avatars
      [] OTHER -> FALSE

\* C9: every message is applied atomically: a step that handles a message,
\* missing fields included, applies all of the message's mutations of the
\* player and avatar mappings or none of them.
C9_MessageAtomic ==
    [][lastEvent'.type = "message"
          => \/ AppliedAll(lastEvent'.msg)
             \/ players' = players /\ avatars' = avatars]_vars

NumJoins(log) == Cardinality({i \in 1..Len(log) : log[i] = JoinMessage})

\* C10: a join_game message without success leaves the player mapping, the
\* avatar mapping, the local player id, the local Player record, the image
\* cache and the viewport unchanged and sends nothing; a connection never
\* carries a second join request.
C10_RefusedJoinChangesNothing ==
    [][/\ (/\ lastEvent'.type = "message"
           /\ lastEvent'.msg.action = "join_game"
           /\ ~lastEvent'.msg.success)
          => /\ UNCHANGED <<players, avatars, myPlayerId, myPlayer,
                            avatarImages, viewportX, viewportY>>
             /\ sent' = sent
       /\ NumJoins(sent') <= 1]_vars

\* A refused join that carried a players and an avatars payload, handled
\* before any successful join: the client is still in its pre-join state
\* and the connection carries the one join request sent when it opened.
C10_Witness ==
    /\ LastMessageIs("join_game")
    /\ ~lastEvent.msg.success
    /\ lastEvent.msg.players # Undefined /\ lastEvent.msg.avatars # Undefined
    /\ myPlayerId = NoId /\ myPlayer = Null
    /\ players = EmptyMap /\ avatars = EmptyMap /\ avatarImages = EmptyMap
    /\ sent = <<JoinMessage>>

----------------------------------------------------------------------------
(* Claims about error handling, the connection and the asset cache *)

\* The step handled a message that was not decoded or not recognized.
BadMessageStep ==
    \/ lastEvent'.type = "decode_error"
    \/ lastEvent'.type = "message" /\ lastEvent'.msg.action \notin KnownActions

\* C11: a message with an unrecognized action and a message that fails to
\* decode leave the player and avatar mappings, the local player, the image
\* cache, the viewport, the movement state and the connection unchanged, and
\* every message handled afterwards has the effect it would have had without
\* the bad message.
C11_BadMessageIgnored ==
    [][BadMessageStep =>
          /\ UNCHANGED <<worldVars, viewVars, keyVars, canvasVars, wsVars, sent>>
          /\ \A m \in DecodeMsgs :
                handleServerMessage(m)' = handleServerMessage(m)]_vars

\* An unrecognized message that carried a players payload, handled after a
\* join while a key was held: the payload's record is not in the mapping.
C11_Witness ==
    /\ lastEvent.type = "message"
    /\ lastEvent.msg.action = "PLAYERS_MOVED"
    /\ myPlayerId = "p1"
    /\ "p1" \in DOMAIN players
    /\ players["p1"] # lastEvent.msg.players["p1"]
    /\ isMoving

\* C12: whenever the connection is lost a reconnection attempt is pending,
\* and it is eventually made: a closed socket is always followed by a new
\* socket that is connecting, also when the socket that closed had never
\* opened.
C12_AlwaysReconnects ==
    /\ [](readyState = "CLOSED" => reconnectTimer)
    /\ (readyState = "CLOSED") ~> (readyState = "CONNECTING")

\* A new connection attempt, made by the timer after a close.
C12_Witness ==
    /\ lastEvent.type = "reconnect"
    /\ readyState = "CONNECTING"
    /\ ~reconnectTimer
    /\ sent = <<>>

\* The player can be drawn: none of the reasons the specification gives for
\* skipping it applies (unknown avatar, no cache entry, a facing no cached
\* set covers, an absent or unloaded frame, a position outside the view).
CanBeDrawn(p) ==
    /\ p.avatar \in DOMAIN avatars
    /\ p.avatar \in DOMAIN avatarImages
    /\ p.facing \in Directions \cup {"west"}
    /\ LET images == avatarImages[p.avatar][IF p.facing = "west" THEN "east"
                                                ELSE p.facing]
           index == IF p.animationFrame = NoFrame THEN 1 ELSE p.animationFrame + 1
       IN  index \in DOMAIN images /\ images[index].complete
    /\ p.x - viewportX >= -CullMargin /\ p.x - viewportX <= canvasWidth + CullMargin
    /\ p.y - viewportY >= -CullMargin /\ p.y - viewportY <= canvasHeight + CullMargin

\* C13: a redraw raises no error, whatever the players' avatars, facings and
\* frames are, and draws every player that can be drawn.
C13_RedrawSkipsSilently ==
    \A pass \in drawWorld :
        /\ ~pass.error
        /\ \A id \in DOMAIN players : CanBeDrawn(players[id]) => id \in pass.drawn

\* The frame sources a cached image set was built from.
Srcs(set) == [dir \in DOMAIN set |-> [i \in DOMAIN set[dir] |-> set[dir][i].src]]

\* The images a load of every frame of the definition creates.
FreshImages(def) ==
    [dir \in Directions |->
        [i \in DOMAIN def.frames[dir] |->
            [src |-> def.frames[dir][i], complete |-> FALSE]]]

\* C14: preloading is idempotent: a cache entry that exists is never
\* removed, a message never replaces or rebuilds it (its images, loaded or
\* not, stay the ones it had), and loads are issued only for a name that had
\* no entry, from the definition then held for it.
C14_PreloadIdempotent ==
    [][/\ \A n \in DOMAIN avatarImages :
             /\ n \in DOMAIN avatarImages'
             /\ Srcs(avatarImages'[n]) = Srcs(avatarImages[n])
             /\ lastEvent'.type = "message" => avatarImages'[n] = avatarImages[n]
       /\ \A n \in DOMAIN avatarImages' \ DOMAIN avatarImages :
             /\ lastEvent'.type = "message"
             /\ n \in DOMAIN avatars'
             /\ avatarImages'[n] = FreshImages(avatars'[n])]_vars

\* A peer join that carried a definition of a1 with other frames, handled
\* when a1 was cached and one of its images loaded: the entry is the old one.
C14_Witness ==
    /\ LastMessageIs("player_joined")
    /\ lastEvent.msg.avatar = AvatarDef("a1", Frames2)
    /\ "a1" \in lastEvent.cached
    /\ avatarImages["a1"].east = <<[src |-> "e1", complete |-> TRUE]>>

\* C16: after a successful join_game the player and avatar mappings are the
\* payload's, the local player id is the payload's playerId and the local
\* Player record is the record the player mapping holds under that id.
C16_JoinReplacesMappings ==
    [][(/\ lastEvent'.type = "message"
        /\ lastEvent'.msg.action = "join_game"
        /\ lastEvent'.msg.success)
          => /\ players' = lastEvent'.msg.players
             /\ avatars' = lastEvent'.msg.avatars
             /\ myPlayerId' = lastEvent'.msg.playerId
             /\ myPlayerId' \in DOMAIN players'
             /\ myPlayer' = players'[myPlayerId']]_vars

\* A successful join handled when a player and an avatar were known that
\* the payload does not list: both are gone.
C16_Witness ==
    /\ LastMessageIs("join_game")
    /\ lastEvent.msg.success
    /\ "p2" \in lastEvent.known /\ "p2" \notin DOMAIN players
    /\ "a2" \in lastEvent.cached /\ "a2" \notin DOMAIN avatars
    /\ myPlayerId = "p1" /\ myPlayer = players["p1"]

\* C17: an avatar definition, once held, is never changed and never removed,
\* and every cached image set is built from the definition currently held
\* under its name.
C17_DefinitionsImmutable ==
    [][/\ \A n \in DOMAIN avatars :
             n \in DOMAIN avatars' /\ avatars'[n] = avatars[n]
       /\ \A n \in DOMAIN avatarImages' :
             /\ n \in DOMAIN avatars'
             /\ Srcs(avatarImages'[n]) = avatars'[n].frames]_vars

\* C15: a player_left for an id the player mapping does not hold leaves the
\* mapping as it is; in general it removes that id and nothing else, and a
\* second application of the same message changes nothing more.
C15_LeaveIsIdempotent ==
    [][(lastEvent'.type = "message" /\ lastEvent'.msg.action = "player_left")
          => LET id == lastEvent'.msg.playerId
             IN  /\ id \notin DOMAIN players => players' = players
                 /\ DOMAIN players' = DOMAIN players \ {id}
                 /\ \A k \in DOMAIN players' : players'[k] = players[k]
                 /\ Delete(players', id) = players'
                 /\ UNCHANGED <<avatars, myPlayerId, myPlayer, avatarImages,
                                viewportX, viewportY>>]_vars

\* A player_left for p2, handled when only p1 was known: p1 is still there.
C15_Witness ==
    /\ LastMessageIs("player_left")
    /\ lastEvent.msg.playerId = "p2"
    /\ lastEvent.known = {"p1"}
    /\ DOMAIN players = {"p1"}

\* C18: after every key handler isMoving is the logical OR of the four key
\* states.
C18_IsMovingIsTheOr ==
    isMoving = (keysPressed.up \/ keysPressed.down
                    \/ keysPressed.left \/ keysPressed.right)

\* A key-up of a held key that left exactly one other key held.
C18_Witness ==
    /\ lastEvent.type = "keyup" /\ lastEvent.held
    /\ Cardinality({k \in LogicalKeys : keysPressed[k]}) = 1
    /\ isMoving

\* C19: a players_moved message inserts the records of the ids the mapping
\* does not hold, so it puts a removed player back; and a player leaves the
\* mapping only by a player_left for its id or by a successful join_game.
C19_MovedResurrects ==
    [][/\ (lastEvent'.type = "message" /\ lastEvent'.msg.action = "players_moved")
             => \A id \in DOMAIN lastEvent'.msg.players \ DOMAIN players :
                   id \in DOMAIN players'
                     /\ players'[id] = lastEvent'.msg.players[id]
       /\ \A id \in DOMAIN players \ DOMAIN players' :
             /\ lastEvent'.type = "message"
             /\ \/ /\ lastEvent'.msg.action = "player_left"
                   /\ lastEvent'.msg.playerId = id
                \/ /\ lastEvent'.msg.action = "join_game"
                   /\ lastEvent'.msg.success]_vars

\* The local player p1, listed by the join and removed since by a
\* player_left, is put back by a players_moved that carries it.
C19_Witness ==
    /\ LastMessageIs("players_moved")
    /\ myPlayerId = "p1"
    /\ "p1" \notin lastEvent.known
    /\ "p1" \in DOMAIN lastEvent.msg.players
    /\ "p1" \in DOMAIN players
    /\ players["p1"] = lastEvent.msg.players["p1"]

\* C20: a connection carries exactly one join request, sent when it opens
\* and before every move and stop; nothing is sent on a socket that is not
\* open; key events on such a socket still update the key states and
\* isMoving.
C20_SendsOnlyWhenOpen ==
    [][/\ Emitted # <<>> =>
             /\ readyState' = "OPEN"
             /\ IF readyState = "OPEN"
                THEN \A i \in 1..Len(Emitted) : Emitted[i].action \in {"move", "stop"}
                ELSE Emitted = <<JoinMessage>> /\ sent' = <<JoinMessage>>
       /\ readyState' = "OPEN" => NumJoins(sent') = 1 /\ sent'[1] = JoinMessage
       /\ readyState' = "CONNECTING" => sent' = <<>>
       /\ sent' # <<>> => NumJoins(sent') = 1 /\ sent'[1] = JoinMessage
       /\ (readyState # "OPEN" /\ lastEvent'.type \in {"keydown", "keyup"}
              /\ KeyName(lastEvent'.key) # "none")
             => /\ keysPressed'[KeyName(lastEvent'.key)] = (lastEvent'.type = "keydown")
                /\ isMoving' = \E k \in LogicalKeys : keysPressed'[k]
                /\ sent' = sent]_vars

\* A key pressed after the connection closed: the key is held, the client
\* is moving and the closed socket carries only its join request.
C20_Witness ==
    /\ lastEvent.type = "keydown" /\ ~lastEvent.held
    /\ KeyName(lastEvent.key) # "none"
    /\ readyState = "CLOSED"
    /\ keysPressed[KeyName(lastEvent.key)] /\ isMoving
    /\ sent = <<JoinMessage>>

====
